---- MODULE Spec2Model ----
(***************************************************************************)
(* A model of libwyag.py: repository bootstrap / discovery and the         *)
(* hash-addressed object store, over an explicit filesystem.               *)
(*                                                                         *)
(* A path is a sequence of component names, <<>> being the root "/".       *)
(* A filesystem is a record [dirs, files]: the set of directories and a    *)
(* function from the paths of the regular files to their contents.         *)
(* Object files hold sequences of byte values, text files sequences of     *)
(* lines.  An error is the name of the exception the code raises there;    *)
(* the code's own `raise Exception(msg)` sites are named after the         *)
(* failure their message reports.  "" is "no error".                       *)
(*                                                                         *)
(* The result of one step is handed to the next as an operator argument    *)
(* (F, then d, then m ...), one operator per stage of a function.          *)
(***************************************************************************)
EXTENDS Integers, Sequences, FiniteSets, TLC

VARIABLES fs, last, written, created, cr, wr, planted

vars == <<fs, last, written, created, cr, wr, planted>>

(* ------------------------------------------------------------------ *)
(* Bounds                                                               *)
(* ------------------------------------------------------------------ *)

\* longest payload drawn from all byte sequences over Bytes
MaxLen == 1
\* how many distinct records are persisted in one behaviour
MaxObjects == 2
\* how many shard prefixes the modelled digest spreads the ids over
NumShards == 2

(* ------------------------------------------------------------------ *)
(* Paths and the filesystem primitives the code calls                   *)
(* ------------------------------------------------------------------ *)

Root == <<>>

Parent(p) == SubSeq(p, 1, Len(p) - 1)

IsPrefix(p, q) == Len(p) <= Len(q) /\ SubSeq(q, 1, Len(p)) = p

\* os.path.exists
Exists(F, p) == p \in F.dirs \/ p \in DOMAIN F.files

\* os.path.isdir
IsDir(F, p) == p \in F.dirs

IsFile(F, p) == p \in DOMAIN F.files

\* os.listdir: the entries directly under p
ListDir(F, p) ==
    { q \in F.dirs \cup DOMAIN F.files : Len(q) = Len(p) + 1 /\ IsPrefix(p, q) }

\* os.path.realpath without symbolic links: "." and ".." are resolved
\* lexically, ".." of the root being the root.
RECURSIVE Normalize(_, _)
Normalize(acc, rest) ==
    IF rest = <<>> THEN acc
    ELSE IF Head(rest) = "." THEN Normalize(acc, Tail(rest))
    ELSE IF Head(rest) = ".."
         THEN Normalize(IF acc = <<>> THEN acc ELSE Parent(acc), Tail(rest))
         ELSE Normalize(Append(acc, Head(rest)), Tail(rest))

RealPath(p) == Normalize(<<>>, p)

\* one mkdir(2): the parent must be a directory and p must not exist
Mkdir(F, p) ==
    IF Exists(F, p) THEN [F |-> F, err |-> "FileExistsError"]
    ELSE IF p = Root \/ ~IsDir(F, Parent(p))
         THEN [F |-> F,
               err |-> IF p # Root /\ IsFile(F, Parent(p))
                       THEN "NotADirectoryError" ELSE "FileNotFoundError"]
         ELSE [F |-> [F EXCEPT !.dirs = @ \cup {p}], err |-> ""]

\* the shortest prefix of p that does not exist yet
FirstMissing(F, p) ==
    SubSeq(p, 1, CHOOSE n \in 0..Len(p) :
                     /\ ~Exists(F, SubSeq(p, 1, n))
                     /\ \A m \in 0..(n - 1) : Exists(F, SubSeq(p, 1, m)))

\* os.makedirs(p) with exist_ok=False: one mkdir per missing ancestor,
\* outermost first, then mkdir(p), which raises when p already exists.
RECURSIVE MakeDirs(_, _)
MakeDirsAfter(m, q, p) ==
    IF m.err # "" \/ q = p THEN m ELSE MakeDirs(m.F, p)

MakeDirsFrom(F, q, p) == MakeDirsAfter(Mkdir(F, q), q, p)

MakeDirs(F, p) ==
    IF Exists(F, p) THEN [F |-> F, err |-> "FileExistsError"]
    ELSE MakeDirsFrom(F, FirstMissing(F, p), p)

\* open(p, "w") / open(p, "wb"): creates the file or truncates it
OpenWrite(F, p) ==
    IF p = Root \/ IsDir(F, p) THEN [F |-> F, err |-> "IsADirectoryError"]
    ELSE IF ~IsDir(F, Parent(p))
         THEN [F |-> F,
               err |-> IF IsFile(F, Parent(p))
                       THEN "NotADirectoryError" ELSE "FileNotFoundError"]
         ELSE [F |-> [F EXCEPT !.files =
                        [x \in DOMAIN F.files \cup {p} |->
                            IF x = p THEN <<>> ELSE F.files[x]]],
               err |-> ""]

\* f.write(data) through a descriptor opened by OpenWrite, flushed when
\* the `with` block ends: one write at the descriptor's offset 0, over
\* whatever the file holds by then
WriteData(F, p, data) ==
    [F |-> [F EXCEPT !.files[p] = data \o SubSeq(@, Len(data) + 1, Len(@))],
     err |-> ""]

WriteOpened(o, p, data) == IF o.err # "" THEN o ELSE WriteData(o.F, p, data)

\* a faulty variant: open(p, "ab"), which keeps what the file holds
WriteFile_AppendMode(F, p, data) ==
    IF IsFile(F, p)
    THEN [F |-> [F EXCEPT !.files[p] = @ \o data], err |-> ""]
    ELSE WriteOpened(OpenWrite(F, p), p, data)

\* with open(p, "w") as f: f.write(data)
WriteFile(F, p, data) == WriteOpened(OpenWrite(F, p), p, data)

(* ------------------------------------------------------------------ *)
(* The configuration file                                               *)
(* ------------------------------------------------------------------ *)

\* config.write(f) of repo_default_config(): what configparser prints
repo_default_config ==
    << "[core]", "repositoryformatversion = 0", "filemode = false",
       "bare = false", "" >>

\* configparser's reading of one "key = value" line
OptionOf(line) ==
    CASE line = "repositoryformatversion = 0" -> <<"repositoryformatversion", "0">>
      [] line = "repositoryformatversion = 1" -> <<"repositoryformatversion", "1">>
      [] line = "repositoryformatversion = 2" -> <<"repositoryformatversion", "2">>
      [] line = "repositoryformatversion = x" -> <<"repositoryformatversion", "x">>
      [] line = "filemode = false" -> <<"filemode", "false">>
      [] line = "bare = false" -> <<"bare", "false">>
      [] OTHER -> <<"", "">>

\* conf.get("core", key): NoSectionError, NoOptionError or the value
ConfGet(conf, key) ==
    IF \A i \in 1..Len(conf) : conf[i] # "[core]"
    THEN [err |-> "NoSectionError", val |-> ""]
    ELSE IF \A i \in 1..Len(conf) : OptionOf(conf[i])[1] # key
         THEN [err |-> "NoOptionError", val |-> ""]
         ELSE [err |-> "",
               val |-> OptionOf(conf[CHOOSE i \in 1..Len(conf) :
                          /\ OptionOf(conf[i])[1] = key
                          /\ \A j \in (i + 1)..Len(conf) : OptionOf(conf[j])[1] # key])[2]]

\* int(s) of a configuration value
IntOfString(s) ==
    CASE s = "0" -> [err |-> "", val |-> 0]
      [] s = "1" -> [err |-> "", val |-> 1]
      [] s = "2" -> [err |-> "", val |-> 2]
      [] OTHER -> [err |-> "ValueError", val |-> 0]

(* ------------------------------------------------------------------ *)
(* Paths under the metadata directory                                   *)
(* ------------------------------------------------------------------ *)

git_path(repo, path) == repo.gitdir \o path

DirMade(m, p) == [F |-> m.F, err |-> m.err, none |-> FALSE, path |-> p]

CheckDirAt(F, p, mkdir) ==
    IF Exists(F, p)
    THEN IF IsDir(F, p)
         THEN [F |-> F, err |-> "", none |-> FALSE, path |-> p]
         ELSE [F |-> F, err |-> "NotADirectory", none |-> FALSE, path |-> p]
    ELSE IF mkdir
         THEN DirMade(MakeDirs(F, p), p)
         ELSE [F |-> F, err |-> "", none |-> TRUE, path |-> p]

\* check_git_dir: [F, err, none, path]; none is the code's `return None`
check_git_dir(F, repo, path, mkdir) == CheckDirAt(F, git_path(repo, path), mkdir)

GitFileAfter(d, full) ==
    IF d.err # "" \/ d.none THEN d
    ELSE [F |-> d.F, err |-> "", none |-> FALSE, path |-> full]

\* git_file: the path itself when the parent directory checks out,
\* None (falling off the end of the function) when it does not
git_file(F, repo, path, mkdir) ==
    GitFileAfter(check_git_dir(F, repo, Parent(path), mkdir), git_path(repo, path))

(* ------------------------------------------------------------------ *)
(* GitRepository.__init__                                               *)
(* ------------------------------------------------------------------ *)

NoRepo == [worktree |-> <<>>, gitdir |-> <<>>, conf |-> <<>>]

VersionChecked(self, vers) ==
    IF vers.err # "" THEN [err |-> vers.err, repo |-> NoRepo]
    ELSE IF vers.val # 0 THEN [err |-> "UnsupportedFormat", repo |-> NoRepo]
    ELSE [err |-> "", repo |-> self]

\* a faulty variant: the version is read but never compared with 0
CheckVersion_Unchecked(self, opt) ==
    IF opt.err # "" THEN [err |-> opt.err, repo |-> NoRepo]
    ELSE IF IntOfString(opt.val).err # ""
         THEN [err |-> IntOfString(opt.val).err, repo |-> NoRepo]
         ELSE [err |-> "", repo |-> self]

\* lines 32-36: int(self.conf.get("core", "repositoryformatversion")) != 0
CheckVersion(self, opt) ==
    IF opt.err # "" THEN [err |-> opt.err, repo |-> NoRepo]
    ELSE VersionChecked(self, IntOfString(opt.val))

\* self.conf.read(cf): a path that cannot be read as a file is skipped
ReadConf(F, cf) ==
    IF ~cf.none /\ IsFile(F, cf.path) THEN F.files[cf.path] ELSE <<>>

OpenWithConf(self, force, conf) ==
    IF force THEN [err |-> "", repo |-> [self EXCEPT !.conf = conf]]
    ELSE CheckVersion([self EXCEPT !.conf = conf],
                      ConfGet(conf, "repositoryformatversion"))

\* lines 25-30, cf being git_file(self, 'config')
OpenWithFile(F, self, force, cf) ==
    IF cf.err # "" THEN [err |-> cf.err, repo |-> NoRepo]
    ELSE IF (cf.none \/ ~Exists(F, cf.path)) /\ ~force
         THEN [err |-> "MissingConfig", repo |-> NoRepo]
         ELSE OpenWithConf(self, force, ReadConf(F, cf))

OpenSelf(F, self, force) ==
    IF ~(force \/ IsDir(F, self.gitdir))
    THEN [err |-> "NotAGitRepository", repo |-> NoRepo]
    ELSE OpenWithFile(F, self, force, git_file(F, self, <<"config">>, FALSE))

\* GitRepository(path, force): [err, repo]; the filesystem is only read
GitRepository(F, path, force) ==
    OpenSelf(F, [worktree |-> path, gitdir |-> path \o <<".git">>, conf |-> <<>>],
             force)

(* ------------------------------------------------------------------ *)
(* repo_create                                                          *)
(* ------------------------------------------------------------------ *)

DescriptionText ==
    << "Unnamed repository; edit this file 'description' to name the repository." >>

HeadText == << "ref: refs/heads/master" >>

\* a faulty variant: the configuration file is written before the other two
CreateCalls_ConfigFirst ==
    << [kind |-> "dir",  path |-> <<"branches">>,       data |-> <<>>],
       [kind |-> "dir",  path |-> <<"objects">>,        data |-> <<>>],
       [kind |-> "dir",  path |-> <<"refs", "tags">>,   data |-> <<>>],
       [kind |-> "dir",  path |-> <<"refs", "heads">>,  data |-> <<>>],
       [kind |-> "file", path |-> <<"config">>,         data |-> repo_default_config],
       [kind |-> "file", path |-> <<"description">>,    data |-> DescriptionText],
       [kind |-> "file", path |-> <<"HEAD">>,           data |-> HeadText] >>

\* the calls of repo_create after the target checks, in order:
\* four check_git_dir(..., mkdir=True), then three files written
CreateCalls ==
    << [kind |-> "dir",  path |-> <<"branches">>,       data |-> <<>>],
       [kind |-> "dir",  path |-> <<"objects">>,        data |-> <<>>],
       [kind |-> "dir",  path |-> <<"refs", "tags">>,   data |-> <<>>],
       [kind |-> "dir",  path |-> <<"refs", "heads">>,  data |-> <<>>],
       [kind |-> "file", path |-> <<"description">>,    data |-> DescriptionText],
       [kind |-> "file", path |-> <<"HEAD">>,           data |-> HeadText],
       [kind |-> "file", path |-> <<"config">>,         data |-> repo_default_config] >>

DirCalled(d) == [F |-> d.F, err |-> d.err]

FileCalled(F, g, data) ==
    IF g.err # "" THEN [F |-> F, err |-> g.err]
    ELSE IF g.none THEN [F |-> F, err |-> "TypeError"]
    ELSE WriteFile(F, g.path, data)

\* one call of CreateCalls run to its end
CreateCall(F, repo, c) ==
    IF c.kind = "dir"
    THEN DirCalled(check_git_dir(F, repo, c.path, TRUE))
    ELSE FileCalled(F, git_file(F, repo, c.path, FALSE), c.data)

RECURSIVE CreateFrom(_, _, _)
CreateNext(r, repo, k) ==
    IF r.err # "" THEN r ELSE CreateFrom(r.F, repo, k + 1)

CreateFrom(F, repo, k) ==
    IF k > Len(CreateCalls) THEN [F |-> F, err |-> ""]
    ELSE CreateNext(CreateCall(F, repo, CreateCalls[k]), repo, k)

WorktreeMade(m, repo) ==
    [F |-> m.F, err |-> m.err, repo |-> IF m.err = "" THEN repo ELSE NoRepo]

TargetChecked(F, path, r) ==
    IF r.err # "" THEN [F |-> F, err |-> r.err, repo |-> NoRepo]
    ELSE IF Exists(F, path)
         THEN IF ~IsDir(F, path)
              THEN [F |-> F, err |-> "InvalidTarget", repo |-> NoRepo]
              ELSE IF ListDir(F, path) # {}
                   THEN [F |-> F, err |-> "InvalidTarget", repo |-> NoRepo]
                   ELSE [F |-> F, err |-> "", repo |-> r.repo]
         ELSE WorktreeMade(MakeDirs(F, path), r.repo)

\* lines 81-89: the forced open and the checks of the target; leaves the
\* worktree an existing empty directory, or fails
CreateTarget(F, path) == TargetChecked(F, path, GitRepository(F, path, TRUE))

Created(b, repo) ==
    [F |-> b.F, err |-> b.err, repo |-> IF b.err = "" THEN repo ELSE NoRepo]

CreateBody(t) == IF t.err # "" THEN t ELSE Created(CreateFrom(t.F, t.repo, 1), t.repo)

\* repo_create(path): [F, err, repo]
repo_create(F, path) == CreateBody(CreateTarget(F, path))

(* ------------------------------------------------------------------ *)
(* repo_search                                                          *)
(* ------------------------------------------------------------------ *)

Opened(r) == [err |-> r.err, found |-> r.err = "", repo |-> r.repo]

RECURSIVE repo_search_from(_, _, _)
\* a faulty variant: the bottom case raises whether or not a repository is required
SearchUp_AlwaysRaise(F, path, parent, required) ==
    IF parent = path
    THEN [err |-> "NotFound", found |-> FALSE, repo |-> NoRepo]
    ELSE repo_search_from(F, parent, required)

\* lines 119-128
SearchUp(F, path, parent, required) ==
    IF parent = path
    THEN IF required
         THEN [err |-> "NotFound", found |-> FALSE, repo |-> NoRepo]
         ELSE [err |-> "", found |-> FALSE, repo |-> NoRepo]
    ELSE repo_search_from(F, parent, required)

\* repo_search on a canonical path: [err, found, repo]; found = FALSE with
\* err = "" is the code's `return None`
repo_search_from(F, path, required) ==
    IF Exists(F, path \o <<".git">>)
    THEN Opened(GitRepository(F, path, FALSE))
    ELSE SearchUp(F, path, RealPath(path \o <<"..">>), required)

repo_search(F, path, required) == repo_search_from(F, RealPath(path), required)

(* ------------------------------------------------------------------ *)
(* Bytes, Python's slicing and searching, the object framing            *)
(* ------------------------------------------------------------------ *)

SP == 32
NUL == 0

\* b'blob', b'tree', b'commit', b'tag'
BlobFmt == <<98, 108, 111, 98>>
TreeFmt == <<116, 114, 101, 101>>
CommitFmt == <<99, 111, 109, 109, 105, 116>>
TagFmt == <<116, 97, 103>>

\* a slice bound brought into 0..n: negative bounds count from the end
Clamp(i, n) ==
    IF i < 0 THEN (IF i + n < 0 THEN 0 ELSE i + n) ELSE (IF i > n THEN n ELSE i)

Between(s, lo, hi) == IF lo >= hi THEN <<>> ELSE SubSeq(s, lo + 1, hi)

\* s[i:j]
PySlice(s, i, j) == Between(s, Clamp(i, Len(s)), Clamp(j, Len(s)))

LeastOr(at) == IF at = {} THEN -1 ELSE CHOOSE i \in at : \A k \in at : i <= k

\* s.find(b, start): the lowest index >= start holding b, or -1
PyFind(s, b, start) ==
    LeastOr({ i \in Clamp(start, Len(s))..(Len(s) - 1) : s[i + 1] = b })

\* str(n).encode()
RECURSIVE Decimal(_)
Decimal(n) ==
    IF n < 10 THEN <<48 + n>> ELSE Decimal(n \div 10) \o <<48 + (n % 10)>>

IsDigit(b) == 48 <= b /\ b <= 57

RECURSIVE DigitsValue(_)
DigitsValue(s) ==
    IF s = <<>> THEN 0
    ELSE 10 * DigitsValue(SubSeq(s, 1, Len(s) - 1)) + (s[Len(s)] - 48)

RECURSIVE Strip(_)
Strip(s) ==
    IF s # <<>> /\ Head(s) = SP THEN Strip(Tail(s))
    ELSE IF s # <<>> /\ s[Len(s)] = SP THEN Strip(SubSeq(s, 1, Len(s) - 1))
    ELSE s

IntOfDigits(t) ==
    IF t = <<>> \/ \E i \in 1..Len(t) : ~IsDigit(t[i])
    THEN [err |-> "ValueError", val |-> 0]
    ELSE [err |-> "", val |-> DigitsValue(t)]

\* int(field.decode('ascii')) for a field of digits, blanks and other
\* bytes: surrounding blanks are dropped, anything but digits is ValueError
PyInt(field) == IntOfDigits(Strip(field))

\* a faulty variant: the header declares one byte more than the payload has
Frame_OffByOne(fmt, data) ==
    fmt \o <<SP>> \o Decimal(Len(data) + 1) \o <<NUL>> \o data

\* obj.fmt + b' ' + str(len(data)).encode() + b'\x00' + data
Frame(fmt, data) == fmt \o <<SP>> \o Decimal(Len(data)) \o <<NUL>> \o data

(* ------------------------------------------------------------------ *)
(* zlib and sha1                                                        *)
(* ------------------------------------------------------------------ *)

\* zlib is modelled by a run-length coding behind zlib's header byte:
\* a lossless coding that is not the identity, and that rejects input
\* without the header (an empty or foreign file).
ZHeader == 120

RECURSIVE RunLength(_)
RunLength(s) ==
    IF Len(s) >= 2 /\ s[2] = s[1] THEN 1 + RunLength(Tail(s)) ELSE 1

RECURSIVE Runs(_)
RunsFrom(s, n) == <<s[1], n>> \o Runs(SubSeq(s, n + 1, Len(s)))

Runs(s) == IF s = <<>> THEN <<>> ELSE RunsFrom(s, RunLength(s))

zlib_compress(s) == <<ZHeader>> \o Runs(s)

RECURSIVE Expand(_)
Expand(z) ==
    IF z = <<>> THEN <<>>
    ELSE [i \in 1..z[2] |-> z[1]] \o Expand(SubSeq(z, 3, Len(z)))

zlib_decompress(z) ==
    IF z = <<>> \/ z[1] # ZHeader \/ Len(z) % 2 = 0
       \/ \E i \in 1..((Len(z) - 1) \div 2) : z[2 * i + 1] < 1
    THEN [err |-> "zlib.error", data |-> <<>>]
    ELSE [err |-> "", data |-> Expand(Tail(z))]

HexDigits ==
    <<"0", "1", "2", "3", "4", "5", "6", "7", "8", "9", "a", "b", "c", "d", "e", "f">>

HexByte(b) == <<HexDigits[(b \div 16) + 1], HexDigits[(b % 16) + 1]>>

RECURSIVE SumBytes(_)
SumBytes(s) == IF s = <<>> THEN 0 ELSE Head(s) + SumBytes(Tail(s))

RECURSIVE HexAll(_)
HexAll(s) == IF s = <<>> THEN <<>> ELSE HexByte(Head(s)) \o HexAll(Tail(s))

\* hashlib.sha1(content).hexdigest(), as a sequence of hex characters.
\* The digest is modelled collision-free: its first two characters spread
\* the contents over NumShards prefixes (so distinct contents can share a
\* prefix), the rest spells the content out.
sha1_hexdigest(content) ==
    HexByte(SumBytes(content) % NumShards) \o HexAll(content)

RECURSIVE Join(_)
Join(chars) == IF chars = <<>> THEN "" ELSE Head(chars) \o Join(Tail(chars))

\* a faulty variant: the record is filed under the two-character prefix alone
ObjectPath_PrefixOnly(sha) ==
    <<"objects", Join(PySlice(sha, 0, 2)), "object">>

\* ("objects", sha[0:2], sha[2:])
ObjectPath(sha) ==
    <<"objects", Join(PySlice(sha, 0, 2)), Join(PySlice(sha, 2, Len(sha)))>>

(* ------------------------------------------------------------------ *)
(* GitBlob, object_read, object_write                                   *)
(* ------------------------------------------------------------------ *)

\* GitBlob(repo, data): deserialize stores the data
GitBlob(repo, data) == [repo |-> repo, fmt |-> BlobFmt, blobdata |-> data]

\* GitBlob.serialize
serialize(obj) == obj.blobdata

NoObject == [fmt |-> <<>>, blobdata |-> <<>>]

\* a faulty variant: the length check counts the NUL among the payload bytes
Sized_CountsNul(raw, fmt, p2, size) ==
    IF size.err # "" THEN [err |-> size.err, obj |-> NoObject]
    ELSE IF size.val # Len(raw) - p2
         THEN [err |-> "MalformedObject", obj |-> NoObject]
    ELSE IF fmt \in {CommitFmt, TreeFmt, TagFmt}
         THEN [err |-> "NameError", obj |-> NoObject]
    ELSE IF fmt = BlobFmt
         THEN [err |-> "",
               obj |-> [fmt |-> BlobFmt, blobdata |-> PySlice(raw, p2 + 1, Len(raw))]]
    ELSE [err |-> "UnknownType", obj |-> NoObject]

\* lines 171-188: size is int(raw[p1 + 1:p2]); GitCommit, GitTree and
\* GitTag are names the module never defines
Sized(raw, fmt, p2, size) ==
    IF size.err # "" THEN [err |-> size.err, obj |-> NoObject]
    ELSE IF size.val # Len(raw) - p2 - 1
         THEN [err |-> "MalformedObject", obj |-> NoObject]
    ELSE IF fmt \in {CommitFmt, TreeFmt, TagFmt}
         THEN [err |-> "NameError", obj |-> NoObject]
    ELSE IF fmt = BlobFmt
         THEN [err |-> "",
               obj |-> [fmt |-> BlobFmt, blobdata |-> PySlice(raw, p2 + 1, Len(raw))]]
    ELSE [err |-> "UnknownType", obj |-> NoObject]

ParseHeader(raw, p1, p2) ==
    Sized(raw, PySlice(raw, 0, p1), p2, PyInt(PySlice(raw, p1 + 1, p2)))

ParseFrom(raw, p1) == ParseHeader(raw, p1, PyFind(raw, NUL, p1))

\* lines 168-188 of object_read, from the decompressed bytes on
ParseObject(raw) == ParseFrom(raw, PyFind(raw, SP, 0))

Decompressed(z) ==
    IF z.err # "" THEN [err |-> z.err, obj |-> NoObject] ELSE ParseObject(z.data)

\* lines 161-162: open(path, "rb") of what git_file returned
ReadAt(F, g) ==
    IF g.err # "" THEN [err |-> g.err, obj |-> NoObject]
    ELSE IF g.none THEN [err |-> "TypeError", obj |-> NoObject]
    ELSE IF IsDir(F, g.path) THEN [err |-> "IsADirectoryError", obj |-> NoObject]
    ELSE IF ~IsFile(F, g.path) THEN [err |-> "FileNotFoundError", obj |-> NoObject]
    ELSE Decompressed(zlib_decompress(F.files[g.path]))

\* object_read: [err, obj]; the filesystem is only read
object_read(F, repo, sha) == ReadAt(F, git_file(F, repo, ObjectPath(sha), FALSE))

Wrote(w, sha) ==
    [F |-> w.F, err |-> w.err, sha |-> IF w.err = "" THEN sha ELSE <<>>]

WriteAt(g, content, sha) ==
    IF g.err # "" THEN [F |-> g.F, err |-> g.err, sha |-> <<>>]
    ELSE Wrote(WriteFile(g.F, g.path, zlib_compress(content)), sha)

Hashed(F, repo, content, sha, actually_write) ==
    IF ~actually_write THEN [F |-> F, err |-> "", sha |-> sha]
    ELSE WriteAt(git_file(F, repo, ObjectPath(sha), TRUE), content, sha)

Framed(F, repo, content, actually_write) ==
    Hashed(F, repo, content, sha1_hexdigest(content), actually_write)

\* object_write: [F, err, sha]
object_write(F, obj, actually_write) ==
    Framed(F, obj.repo, Frame(obj.fmt, serialize(obj)), actually_write)

(* ------------------------------------------------------------------ *)
(* Inputs                                                               *)
(* ------------------------------------------------------------------ *)

\* payload bytes: the two delimiters of the framing
Bytes == {NUL, SP}

RECURSIVE SeqsUpTo(_, _)
SeqsUpTo(S, n) ==
    IF n = 0 THEN {<<>>}
    ELSE SeqsUpTo(S, n - 1) \cup
         { Append(t, b) : t \in { u \in SeqsUpTo(S, n - 1) : Len(u) = n - 1 }, b \in S }

\* b"hello"
Hello == <<104, 101, 108, 108, 111>>

\* ten bytes, for a length field of two digits
TenBytes == <<49, 50, 51, 52, 53, 54, 55, 56, 57, 48>>

Payloads == SeqsUpTo(Bytes, MaxLen) \cup {Hello, TenBytes}

IdOf(data) == sha1_hexdigest(Frame(BlobFmt, data))

W == <<"w">>
WN == <<"w", "n">>
E == <<"e">>

\* worktrees the object store is exercised in
StoreWorktrees == {W, WN}

\* what is written where: every payload in w, one payload in the nested w/n
StoreInputs == { <<W, d>> : d \in Payloads } \cup { <<WN, Hello>> }

\* where a record with this id lives under worktree wt
RecordPath(wt, sha) == wt \o <<".git">> \o ObjectPath(sha)

EmptyFs == [dirs |-> {Root}, files |-> <<>>]

NoLast ==
    [op |-> "none", path |-> <<>>, flag |-> FALSE, data |-> <<>>, sha |-> <<>>,
     err |-> "", found |-> FALSE, repo |-> <<>>, fmt |-> <<>>, out |-> <<>>,
     pre |-> EmptyFs]

NoCreate == [path |-> <<>>, k |-> 0, st |-> "idle", sub |-> ""]

NoPlant == [sha |-> <<>>, fmt |-> <<>>, n |-> 0, pad |-> FALSE, data |-> <<>>, on |-> FALSE]

(* ------------------------------------------------------------------ *)
(* The operations as actions                                            *)
(* ------------------------------------------------------------------ *)

CreateDone(p, r) ==
    /\ fs' = r.F
    /\ created' = IF r.err = "" THEN created \cup {p} ELSE created
    /\ last' = [NoLast EXCEPT !.op = "create", !.path = p, !.err = r.err,
                              !.repo = r.repo.worktree, !.pre = fs]
    /\ UNCHANGED <<written, cr, wr, planted>>

\* repo_create(p)
Create(p) == CreateDone(p, repo_create(fs, p))

WriteDone(wt, data, persist, r) ==
    /\ (persist /\ [wt |-> wt, sha |-> r.sha, data |-> data] \notin written)
          => Cardinality(written) < MaxObjects
    /\ fs' = r.F
    /\ written' = IF persist /\ r.err = ""
                  THEN written \cup {[wt |-> wt, sha |-> r.sha, data |-> data]}
                  ELSE written
    /\ last' = [NoLast EXCEPT !.op = "write", !.path = wt, !.flag = persist,
                              !.data = data, !.sha = r.sha, !.err = r.err, !.pre = fs]
    /\ UNCHANGED <<created, cr, wr, planted>>

WriteWith(wt, data, persist, h) ==
    /\ h.err = ""
    /\ WriteDone(wt, data, persist, object_write(fs, GitBlob(h.repo, data), persist))

\* object_write(GitBlob(repo, data), persist), repo being the handle a
\* successful non-forced open of worktree wt gives
Write(wt, data, persist) == WriteWith(wt, data, persist, GitRepository(fs, wt, FALSE))

ReadDone(wt, sha, r) ==
    /\ last' = [NoLast EXCEPT !.op = "read", !.path = wt, !.sha = sha, !.err = r.err,
                              !.fmt = r.obj.fmt, !.out = r.obj.blobdata, !.pre = fs]
    /\ UNCHANGED <<fs, written, created, cr, wr, planted>>

ReadWith(wt, sha, h) ==
    /\ h.err = ""
    /\ ReadDone(wt, sha, object_read(fs, h.repo, sha))

\* object_read(repo, sha) on such a handle
Read(wt, sha) == ReadWith(wt, sha, GitRepository(fs, wt, FALSE))

OpenDone(p, force, r) ==
    /\ last' = [NoLast EXCEPT !.op = "open", !.path = p, !.flag = force, !.err = r.err,
                              !.found = (r.err = ""), !.repo = r.repo.worktree,
                              !.pre = fs]
    /\ UNCHANGED <<fs, written, created, cr, wr, planted>>

\* GitRepository(p, force)
Open(p, force) == OpenDone(p, force, GitRepository(fs, p, force))

DiscoverDone(start, required, r) ==
    /\ last' = [NoLast EXCEPT !.op = "discover", !.path = start, !.flag = required,
                              !.err = r.err, !.found = r.found,
                              !.repo = r.repo.worktree, !.pre = fs]
    /\ UNCHANGED <<fs, written, created, cr, wr, planted>>

\* repo_search(start, required)
Discover(start, required) == DiscoverDone(start, required, repo_search(fs, start, required))

(* ------------------------------------------------------------------ *)
(* Spec: the object store in repositories made by repo_create           *)
(* ------------------------------------------------------------------ *)

Init ==
    /\ fs = EmptyFs
    /\ last = NoLast
    /\ written = {}
    /\ created = {}
    /\ cr = NoCreate
    /\ wr = <<>>
    /\ planted = NoPlant

StoreCreate == \E p \in StoreWorktrees : Create(p)

StoreWrite == \E i \in StoreInputs, persist \in BOOLEAN : Write(i[1], i[2], persist)

StoreRead == \E i \in StoreInputs : Read(i[1], IdOf(i[2]))

Next == StoreCreate \/ StoreWrite \/ StoreRead

Spec == Init /\ [][Next]_vars

(* ------------------------------------------------------------------ *)
(* SpecBoot: create, open and discover over a filesystem that already   *)
(* holds other people's directories                                     *)
(* ------------------------------------------------------------------ *)

G == <<"g">>
V == <<"v">>
P == <<"p">>
FilePath == <<"f">>

\* configuration files a foreign repository may hold
ForeignConfigs ==
    { repo_default_config,
      << "[core]", "repositoryformatversion = 1", "bare = false", "" >>,
      << "[core]", "repositoryformatversion = 2", "" >>,
      << "[core]", "repositoryformatversion = x", "" >>,
      << "[core]", "bare = false", "" >>,
      << >> }

\* e: an empty directory.  f: a regular file.  g: a directory whose .git
\* is a regular file (a linked checkout).  p: a directory whose .git is a
\* directory without a configuration file.  v: a repository of another
\* tool, with configuration c.
BootFs(c) ==
    [dirs |-> {Root, E, G, P, P \o <<".git">>, V, V \o <<".git">>},
     files |-> [x \in {FilePath, G \o <<".git">>, V \o <<".git", "config">>} |->
                  IF x = V \o <<".git", "config">> THEN c
                  ELSE IF x = FilePath THEN <<"text">>
                  ELSE <<"gitdir: ../v/.git">>]]

BootCreatePaths == {W, WN, E, FilePath, G, V, P}

BootOpenPaths == {W, WN, E, FilePath, G, V, P, <<"x">>}

BootStarts ==
    { <<"w", "n", "k">>, <<"w", "n", "..">>, <<"w", ".git", "refs">>,
      <<"v", "sub", "deep">>, <<"g", "x">>, P, E, <<"e", ".", "y">>, Root }

BootInit ==
    /\ fs \in { BootFs(c) : c \in ForeignConfigs }
    /\ last = NoLast
    /\ written = {}
    /\ created = {}
    /\ cr = NoCreate
    /\ wr = <<>>
    /\ planted = NoPlant

BootCreate == \E p \in BootCreatePaths : Create(p)

BootOpen == \E p \in BootOpenPaths, force \in BOOLEAN : Open(p, force)

BootDiscover == \E start \in BootStarts, required \in BOOLEAN : Discover(start, required)

BootNext == BootCreate \/ BootOpen \/ BootDiscover

SpecBoot == BootInit /\ [][BootNext]_vars

(* ------------------------------------------------------------------ *)
(* SpecCrash: repo_create one filesystem call at a time, interrupted    *)
(* anywhere, with repo_search run on what is left                       *)
(* ------------------------------------------------------------------ *)

CrashPaths == {W, WN, E}

Handle(p) == [worktree |-> p, gitdir |-> p \o <<".git">>, conf |-> <<>>]

Step == [NoLast EXCEPT !.op = "step"]

CrashInit ==
    /\ fs = [EmptyFs EXCEPT !.dirs = {Root, E}]
    /\ last = NoLast
    /\ written = {}
    /\ created = {}
    /\ cr = NoCreate
    /\ wr = <<>>
    /\ planted = NoPlant

BegunWith(p, t) ==
    /\ fs' = t.F
    /\ cr' = IF t.err = ""
             THEN [path |-> p, k |-> 1, st |-> "running", sub |-> ""]
             ELSE [path |-> p, k |-> 0, st |-> "failed", sub |-> ""]
    /\ last' = Step
    /\ UNCHANGED <<written, created, wr, planted>>

\* lines 81-89 of repo_create(p)
CrashBegin == \E p \in CrashPaths : cr.st = "idle" /\ BegunWith(p, CreateTarget(fs, p))

Advance(k) ==
    IF k + 1 > Len(CreateCalls)
    THEN [cr EXCEPT !.k = k + 1, !.st = "done", !.sub = ""]
    ELSE [cr EXCEPT !.k = k + 1, !.sub = ""]

MkdirStepped(m, q, target) ==
    /\ fs' = m.F
    /\ cr' = IF m.err # "" THEN [cr EXCEPT !.st = "failed"]
             ELSE IF q = target THEN Advance(cr.k) ELSE cr
    /\ last' = Step
    /\ UNCHANGED <<written, created, wr, planted>>

MkdirStepAt(q, target) == MkdirStepped(Mkdir(fs, q), q, target)

\* one mkdir of the os.makedirs a check_git_dir(..., mkdir=True) runs
CrashMkdir ==
    /\ cr.st = "running"
    /\ CreateCalls[cr.k].kind = "dir"
    /\ MkdirStepAt(FirstMissing(fs, git_path(Handle(cr.path), CreateCalls[cr.k].path)),
                   git_path(Handle(cr.path), CreateCalls[cr.k].path))

FileOpened(o) ==
    /\ fs' = o.F
    /\ cr' = IF o.err # "" THEN [cr EXCEPT !.st = "failed"] ELSE [cr EXCEPT !.sub = "open"]
    /\ last' = Step
    /\ UNCHANGED <<written, created, wr, planted>>

\* open(git_file(repo, name), "w"): the file exists, empty
CrashOpen ==
    /\ cr.st = "running"
    /\ CreateCalls[cr.k].kind = "file"
    /\ cr.sub = ""
    /\ FileOpened(OpenWrite(fs, git_path(Handle(cr.path), CreateCalls[cr.k].path)))

FileWritten(w) ==
    /\ fs' = w.F
    /\ cr' = Advance(cr.k)
    /\ last' = Step
    /\ UNCHANGED <<written, created, wr, planted>>

\* the text reaches the file when the `with` block closes it
CrashWrite ==
    /\ cr.st = "running"
    /\ CreateCalls[cr.k].kind = "file"
    /\ cr.sub = "open"
    /\ FileWritten(WriteData(fs, git_path(Handle(cr.path), CreateCalls[cr.k].path),
                             CreateCalls[cr.k].data))

\* the process is interrupted: the filesystem stays as it is
Crash ==
    /\ cr.st = "running"
    /\ cr' = [cr EXCEPT !.st = "crashed"]
    /\ last' = [NoLast EXCEPT !.op = "crash"]
    /\ UNCHANGED <<fs, written, created, wr, planted>>

CrashSearched(start, required, r) ==
    /\ last' = [NoLast EXCEPT !.op = "discover", !.path = start, !.flag = required,
                              !.err = r.err, !.found = r.found,
                              !.repo = r.repo.worktree, !.pre = fs]
    /\ UNCHANGED <<fs, written, created, cr, wr, planted>>

\* repo_search from the worktree or from below it, by another process or
\* after the interruption
CrashDiscover ==
    \E tail \in {<<>>, <<"k">>}, required \in BOOLEAN :
        /\ cr.st # "idle"
        /\ CrashSearched(cr.path \o tail, required,
                         repo_search(fs, cr.path \o tail, required))

CrashNext == CrashBegin \/ CrashMkdir \/ CrashOpen \/ CrashWrite \/ Crash \/ CrashDiscover

SpecCrash == CrashInit /\ [][CrashNext]_vars

(* ------------------------------------------------------------------ *)
(* SpecConc: two processes in object_write on one repository, one       *)
(* filesystem call at a time                                            *)
(* ------------------------------------------------------------------ *)

Writers == {1, 2}

\* <<NUL>> and <<SP>> get ids of one shard prefix
ConcPayloads == {<<>>, <<NUL>>, <<SP>>}

Idle == [pc |-> "start", data |-> <<>>, sha |-> <<>>, err |-> ""]

ConcInit ==
    /\ fs = repo_create(EmptyFs, W).F
    /\ last = NoLast
    /\ written = {}
    /\ created = {W}
    /\ cr = NoCreate
    /\ wr = [i \in Writers |-> Idle]
    /\ planted = NoPlant

ShardDir(sha) == git_path(Handle(W), Parent(ObjectPath(sha)))

\* lines 193-197: serialize, frame, hash
WBegin(i) ==
    \E d \in ConcPayloads :
        /\ wr[i].pc = "start"
        /\ wr' = [wr EXCEPT ![i] = [pc |-> "exists", data |-> d, sha |-> IdOf(d),
                                    err |-> ""]]
        /\ UNCHANGED <<fs, last, written, created, cr, planted>>

\* check_git_dir lines 48-52: os.path.exists, os.path.isdir
WExists(i) ==
    /\ wr[i].pc = "exists"
    /\ wr' = [wr EXCEPT ![i] =
                IF Exists(fs, ShardDir(wr[i].sha))
                THEN IF IsDir(fs, ShardDir(wr[i].sha))
                     THEN [@ EXCEPT !.pc = "open"]
                     ELSE [@ EXCEPT !.pc = "failed", !.err = "NotADirectory"]
                ELSE [@ EXCEPT !.pc = "makedirs"]]
    /\ UNCHANGED <<fs, last, written, created, cr, planted>>

WMade(i, m) ==
    /\ fs' = m.F
    /\ wr' = [wr EXCEPT ![i] = IF m.err # ""
                               THEN [@ EXCEPT !.pc = "failed", !.err = m.err]
                               ELSE [@ EXCEPT !.pc = "open"]]
    /\ UNCHANGED <<last, written, created, cr, planted>>

\* check_git_dir line 55: os.makedirs(path)
WMakedirs(i) ==
    /\ wr[i].pc = "makedirs"
    /\ WMade(i, MakeDirs(fs, ShardDir(wr[i].sha)))

WOpened(i, o) ==
    /\ fs' = o.F
    /\ wr' = [wr EXCEPT ![i] = IF o.err # ""
                               THEN [@ EXCEPT !.pc = "failed", !.err = o.err]
                               ELSE [@ EXCEPT !.pc = "write"]]
    /\ UNCHANGED <<last, written, created, cr, planted>>

\* line 201: open(path, "wb")
WOpen(i) ==
    /\ wr[i].pc = "open"
    /\ WOpened(i, OpenWrite(fs, RecordPath(W, wr[i].sha)))

\* line 202: f.write(zlib.compress(content)), then return sha
WWrite(i) ==
    /\ wr[i].pc = "write"
    /\ fs' = WriteData(fs, RecordPath(W, wr[i].sha),
                       zlib_compress(Frame(BlobFmt, wr[i].data))).F
    /\ wr' = [wr EXCEPT ![i] = [@ EXCEPT !.pc = "done"]]
    /\ UNCHANGED <<last, written, created, cr, planted>>

ConcNext ==
    \E i \in Writers :
        WBegin(i) \/ WExists(i) \/ WMakedirs(i) \/ WOpen(i) \/ WWrite(i)

SpecConc == ConcInit /\ [][ConcNext]_vars

(* ------------------------------------------------------------------ *)
(* SpecCorrupt: one record written, its header then overwritten from    *)
(* outside, and read back                                               *)
(* ------------------------------------------------------------------ *)

\* type tags a foreign header carries: a constructible one, one without
\* a constructor, an unknown one
PlantFmts == {BlobFmt, TreeFmt, <<120>>}

CorruptInit ==
    /\ fs = repo_create(EmptyFs, W).F
    /\ last = NoLast
    /\ written = {}
    /\ created = {W}
    /\ cr = NoCreate
    /\ wr = <<>>
    /\ planted = NoPlant

CorruptWrite == \E d \in Payloads : written = {} /\ Write(W, d, TRUE)

Field(n, pad) == (IF pad THEN <<48>> ELSE <<>>) \o Decimal(n)

\* the stored file of record w is replaced by the compressed bytes of
\* "<fmt> <field>\0<payload>", the field spelling n in decimal
Plant(w, fmt, n, pad) ==
    /\ fs' = WriteFile(fs, RecordPath(w.wt, w.sha),
                       zlib_compress(fmt \o <<SP>> \o Field(n, pad) \o <<NUL>> \o w.data)).F
    /\ planted' = [sha |-> w.sha, fmt |-> fmt, n |-> n, pad |-> pad, data |-> w.data,
                   on |-> TRUE]
    /\ last' = [NoLast EXCEPT !.op = "plant"]
    /\ UNCHANGED <<written, created, cr, wr>>

Corrupt ==
    \E w \in written, fmt \in PlantFmts, pad \in BOOLEAN :
        \E n \in 0..(Len(w.data) + 1) : ~planted.on /\ Plant(w, fmt, n, pad)

CorruptRead == \E d \in Payloads : Read(W, IdOf(d))

CorruptNext == CorruptWrite \/ Corrupt \/ CorruptRead

SpecCorrupt == CorruptInit /\ [][CorruptNext]_vars

(* ------------------------------------------------------------------ *)
(* Properties                                                           *)
(* ------------------------------------------------------------------ *)

\* C1 (Spec): in a repository made by repo_create a persisting write
\* succeeds, and reading the id it returned - at once or any time later -
\* gives a blob whose payload is the payload written, the empty one
\* included.
RoundTrip ==
    /\ (last.op = "write" /\ last.flag) =>
          /\ last.err = ""
          /\ object_read(fs, Handle(last.path), last.sha)
               = [err |-> "", obj |-> [fmt |-> BlobFmt, blobdata |-> last.data]]
    /\ last.op = "read" =>
          \A w \in written :
              (w.wt = last.path /\ w.sha = last.sha)
                 => last.err = "" /\ last.fmt = BlobFmt /\ last.out = w.data

RoundTripWitness ==
    /\ last.op = "read" /\ last.err = "" /\ last.fmt = BlobFmt /\ last.out = <<>>
    /\ [wt |-> last.path, sha |-> last.sha, data |-> <<>>] \in written

\* C2 (Spec): a persisting write of a payload whose record is already
\* stored in that repository returns the id the earlier write returned
\* and leaves the stored bytes (and the rest of the filesystem) as they
\* were.
WriteIdempotent ==
    (last.op = "write" /\ last.flag) =>
        \A w \in written :
            (w.wt = last.path /\ w.data = last.data
               /\ IsFile(last.pre, RecordPath(w.wt, w.sha)))
            => /\ last.err = ""
               /\ last.sha = w.sha
               /\ IsFile(fs, RecordPath(w.wt, w.sha))
               /\ fs.files[RecordPath(w.wt, w.sha)]
                    = last.pre.files[RecordPath(w.wt, w.sha)]
               /\ fs = last.pre

WriteIdempotentWitness ==
    /\ last.op = "write" /\ last.flag /\ last.err = ""
    /\ IsFile(last.pre, RecordPath(last.path, last.sha))
    /\ IsFile(fs, RecordPath(last.path, last.sha))

\* C3 (SpecConc), as claimed: whatever the interleaving of two writers'
\* filesystem calls, neither write fails.
ConcurrentWritesSucceed == \A i \in Writers : wr[i].pc # "failed"

\* C4 (SpecCrash): while repo_create(D) is under way or was interrupted,
\* once D/.git exists and the configuration file is not yet written out,
\* repo_search from D (or from below it) raises during validation
\* instead of returning a repository.
PartialIsDetected ==
    (/\ last.op = "discover"
     /\ cr.st \in {"running", "crashed"}
     /\ Exists(fs, cr.path \o <<".git">>))
    => /\ ~last.found
       /\ last.err \in {"MissingConfig", "NoSectionError"}

PartialIsDetectedWitness ==
    /\ last.op = "discover" /\ last.flag /\ last.path = cr.path
    /\ cr.st = "crashed"
    /\ IsFile(fs, cr.path \o <<".git", "config">>)
    /\ last.err = "NoSectionError"

\* C5 (SpecBoot), as claimed: repo_create on a path that exists and is
\* not a directory, or is a directory with entries, fails with
\* InvalidTarget and leaves the filesystem as it was.
CreateRejectsWithInvalidTarget ==
    (/\ last.op = "create"
     /\ Exists(last.pre, last.path)
     /\ (~IsDir(last.pre, last.path) \/ ListDir(last.pre, last.path) # {}))
    => last.err = "InvalidTarget" /\ fs = last.pre

Ancestors(p) == { SubSeq(p, 1, n) : n \in 0..Len(p) }

\* the ancestors-or-self of the canonical start at which .git exists
MetaAt(F, start) == { q \in Ancestors(RealPath(start)) : Exists(F, q \o <<".git">>) }

\* ... at which .git is a directory
MetaDirAt(F, start) == { q \in Ancestors(RealPath(start)) : IsDir(F, q \o <<".git">>) }

Nearest(S) == CHOOSE q \in S : \A r \in S : Len(r) <= Len(q)

\* C6 (SpecBoot), as claimed: repo_search returns the repository of the
\* nearest ancestor-or-self that has a metadata directory, hence the
\* repository of any worktree made by repo_create that the start is
\* nested under; with no such ancestor it raises NotFound when required
\* and returns None otherwise.
DiscoverReturnsNearest ==
    last.op = "discover" =>
        /\ IF MetaDirAt(fs, last.path) = {}
           THEN ~last.found /\ last.err = (IF last.flag THEN "NotFound" ELSE "")
           ELSE last.found /\ last.err = ""
                /\ last.repo = Nearest(MetaDirAt(fs, last.path))
        /\ \A w \in created :
              IsPrefix(w, RealPath(last.path)) => last.found /\ last.repo = w

\* C6 (SpecBoot), amended: repo_search stops at the nearest
\* ancestor-or-self at which .git exists (file or directory) and gives
\* what the validating open of that place gives - its repository, or its
\* failure; when that place is a worktree made by a completed
\* repo_create the open succeeds.  With no such ancestor it raises
\* NotFound when required and returns None otherwise.
DiscoverOpensNearest ==
    last.op = "discover" =>
        IF MetaAt(fs, last.path) = {}
        THEN ~last.found /\ last.err = (IF last.flag THEN "NotFound" ELSE "")
        ELSE /\ last.err = GitRepository(fs, Nearest(MetaAt(fs, last.path)), FALSE).err
             /\ last.found = (last.err = "")
             /\ last.found => last.repo = Nearest(MetaAt(fs, last.path))
             /\ Nearest(MetaAt(fs, last.path)) \in created => last.found

DiscoverOpensNearestWitness ==
    /\ last.op = "discover" /\ last.path = <<"w", "n", "k">>
    /\ last.found /\ last.repo = WN
    /\ {W, WN} \subseteq created

\* C7 (Spec): no step removes or changes the record of an earlier
\* persisting write; a read changes nothing, a write that does not
\* persist changes nothing, and a persisting write changes no file but
\* the one at its own sharded path.
RecordsAreKept ==
    [][ /\ \A w \in written :
              /\ IsFile(fs', RecordPath(w.wt, w.sha))
              /\ fs'.files[RecordPath(w.wt, w.sha)] = fs.files[RecordPath(w.wt, w.sha)]
        /\ last'.op = "read" => fs' = fs
        /\ (last'.op = "write" /\ ~last'.flag) => fs' = fs
        /\ (last'.op = "write" /\ last'.flag) =>
              \A q \in DOMAIN fs.files :
                  q # RecordPath(last'.path, last'.sha)
                     => IsFile(fs', q) /\ fs'.files[q] = fs.files[q]
      ]_vars

\* two records under one shard prefix, the second written after the first
RecordsAreKeptWitness ==
    /\ last.op = "write" /\ last.flag /\ last.err = ""
    /\ \E w \in written :
          /\ w.wt = last.path /\ w.sha # last.sha
          /\ PySlice(w.sha, 0, 2) = PySlice(last.sha, 0, 2)
          /\ IsFile(last.pre, RecordPath(w.wt, w.sha))
          /\ ~IsFile(last.pre, RecordPath(last.path, last.sha))

ConfigOf(p) == p \o <<".git", "config">>

HasLine(text, line) == \E i \in 1..Len(text) : text[i] = line

\* C8 (SpecBoot), as claimed: a non-forced open succeeds only on a
\* configuration with repositoryformatversion 0, raises MissingConfig
\* whenever the file is absent and UnsupportedFormat for every other
\* version value; a forced open runs neither check and succeeds where
\* nothing exists yet.
OpenValidatesAsClaimed ==
    last.op = "open" =>
        /\ (~last.flag /\ last.err = "") =>
              /\ IsFile(fs, ConfigOf(last.path))
              /\ HasLine(fs.files[ConfigOf(last.path)], "repositoryformatversion = 0")
        /\ (~last.flag /\ ~Exists(fs, ConfigOf(last.path))) => last.err = "MissingConfig"
        /\ (~last.flag /\ IsFile(fs, ConfigOf(last.path))
              /\ \E v \in {"1", "2", "x"} :
                    HasLine(fs.files[ConfigOf(last.path)], "repositoryformatversion = " \o v))
              => last.err = "UnsupportedFormat"
        /\ last.flag => last.err \notin {"MissingConfig", "UnsupportedFormat"}
        /\ (last.flag /\ ~Exists(fs, last.path \o <<".git">>)) => last.err = ""

\* C8 (SpecBoot), amended: MissingConfig is raised when the metadata
\* directory is a directory and the file is absent (without the
\* directory the open raises "Not a git repository"), UnsupportedFormat
\* for every integer version other than 0 (a value that is no integer
\* fails in int() with ValueError); the rest as claimed.
OpenValidates ==
    last.op = "open" =>
        /\ (~last.flag /\ last.err = "") =>
              /\ IsFile(fs, ConfigOf(last.path))
              /\ HasLine(fs.files[ConfigOf(last.path)], "repositoryformatversion = 0")
        /\ (~last.flag /\ IsDir(fs, last.path \o <<".git">>)
              /\ ~Exists(fs, ConfigOf(last.path))) => last.err = "MissingConfig"
        /\ (~last.flag /\ ~IsDir(fs, last.path \o <<".git">>))
              => last.err = "NotAGitRepository"
        /\ (~last.flag /\ IsFile(fs, ConfigOf(last.path))
              /\ \E v \in {"1", "2"} :
                    HasLine(fs.files[ConfigOf(last.path)], "repositoryformatversion = " \o v))
              => last.err = "UnsupportedFormat"
        /\ (~last.flag /\ IsFile(fs, ConfigOf(last.path))
              /\ HasLine(fs.files[ConfigOf(last.path)], "repositoryformatversion = x"))
              => last.err = "ValueError"
        /\ last.flag => last.err \notin {"MissingConfig", "UnsupportedFormat"}
        /\ (last.flag /\ ~Exists(fs, last.path \o <<".git">>)) => last.err = ""

OpenValidatesWitness ==
    /\ last.op = "open" /\ ~last.flag /\ last.path = V
    /\ last.err = "UnsupportedFormat"

\* C9 (Spec), as claimed: a read of an id with no stored record fails
\* with the not-found error, whether or not the shard directory exists,
\* and creates nothing.
ReadOfAbsentIsNotFound ==
    (last.op = "read" /\ ~IsFile(fs, RecordPath(last.path, last.sha)))
    => last.err = "FileNotFoundError" /\ fs = last.pre

\* C10 (SpecCorrupt): a stored record whose decimal length field differs
\* from the number of bytes after the NUL is rejected as malformed and
\* no object is returned; a record whose field matches - untouched, or
\* rewritten with the right number - is never rejected as malformed.
LengthIsChecked ==
    last.op = "read" =>
        /\ (planted.on /\ last.sha = planted.sha /\ planted.n # Len(planted.data))
              => last.err = "MalformedObject" /\ last.fmt = <<>> /\ last.out = <<>>
        /\ (planted.on /\ last.sha = planted.sha /\ planted.n = Len(planted.data))
              => last.err # "MalformedObject"
        /\ ~planted.on => last.err # "MalformedObject"

LengthIsCheckedWitness ==
    /\ last.op = "read" /\ planted.on /\ last.sha = planted.sha
    /\ planted.fmt = BlobFmt /\ planted.pad
    /\ planted.n = Len(planted.data) + 1
    /\ last.err = "MalformedObject"

====
